---- MODULE Spec2Model ----
(***************************************************************************)
(* Model of the validator dispatch loop of bitrecs-subnet                   *)
(* (src/template/base/validator.py): the api_queue hand-off between        *)
(* api_forward (producer threads) and BaseValidatorNeuron.run (the loop     *)
(* thread), peer selection, select_top_result, and the completion of a      *)
(* SynapseWithEvent.                                                        *)
(*                                                                          *)
(* A SynapseWithEvent is identified by the producer that created it; a      *)
(* producer that calls api_forward again creates a fresh object under the   *)
(* same identifier.  A response is a record [for, idx, n]: the producer     *)
(* whose request it answers, its 1-based position in the batch returned by  *)
(* dendrite.query, and len(r.results).  self.step is not modelled (no       *)
(* branch of run() reads it).                                               *)
(*                                                                          *)
(* The reputation engine (update_scores, resync_metagraph, set_weights) is  *)
(* modelled on the same state and checked in ReputationSpec, where its      *)
(* methods are called in any order; the dispatch specifications leave it    *)
(* as __init__ built it.                                                    *)
(***************************************************************************)
EXTENDS Integers, Sequences, FiniteSets, TLC

\* ---------------------------------------------------------------- bounds
NumProducers == 2
NumUids == 2
MaxResponses == 2
MaxUids == 11
MaxBatch == 4
MaxN == 2
NumKeys == 2
MaxUpdates == 2
MaxRewards == 2
\* iterations begun after the stop request are counted up to MaxExitIters
MaxExitIters == 2
MaxThreads == 3
NumForwards == 2

\* ------------------------------------------------------ program constants
sample_size == 20
ClampMin == 1
ClampMax == 10
\* stand-in for the largest finite float, np.nan_to_num's value for +inf
FloatMax == 1000000
\* moving_average_alpha is a multiple of 1/AlphaDen
AlphaDen == 5

Producers == 1..NumProducers
Uids == 0..(NumUids - 1)
ResultCounts == {3, 5}
\* num_results of the requests the producers submit in Spec
RequestedCounts == {5}

VARIABLES
    api_enabled,        \* self.config.api.enabled
    api_exclusive,      \* self.config.api.exclusive
    should_exit,        \* self.should_exit
    api_queue,          \* module-level SimpleQueue of SynapseWithEvent
    input_synapse,      \* SynapseWithEvent.input_synapse.num_results (0: no object)
    event,              \* SynapseWithEvent.event is set
    output_synapse,     \* SynapseWithEvent.output_synapse
    ppc,                \* position of each producer inside api_forward
    ret,                \* value returned by api_forward
    pc,                 \* position of the loop thread inside run()
    synapse_with_event, \* local of run(): the dequeued object (0: None)
    available_uids,     \* local of run()
    chosen_uids,        \* local of run()
    responses,          \* local of run()
    selected_response,  \* local of run()
    path,               \* history: branch taken by the current iteration
    winner,             \* history: result of select_top_result per object
    deq_count,          \* history: times the object was taken from api_queue
    write_count,        \* history: times run() wrote the object's result slot
    ret_count,          \* history: times api_forward returned for the object
    interrupted,        \* run() was ended by a KeyboardInterrupt
    exit_iters,         \* history: iterations begun with should_exit set
    metagraph,          \* self.metagraph: [hotkeys, info]; info stands for the
                        \* axon fields other than the hotkey (ip, port, ...)
    hotkeys,            \* self.hotkeys
    scores,             \* self.scores: numerators over AlphaDen^score_exp
    score_exp,          \* exponent of the common denominator of scores
    alpha_num,          \* config.neuron.moving_average_alpha * AlphaDen
    raw_weights,        \* raw_weights of the last call, if it was set_weights
    norm,               \* norm of the last call, if it was set_weights
    last_op,            \* history: the engine method called last
    outcome,            \* history: how that call ended
    is_running,         \* self.is_running
    threads,            \* the threads started on run(), in order of creation
    caller,             \* position of the thread that starts and stops the validator
    co,                 \* the coroutines gathered by concurrent_forward
    applied,            \* history: coroutines in the order their update was applied
    args,               \* arguments of the update_scores call under study
    miner_metagraph,    \* Miner: self.metagraph (hotkeys, validator_permit)
    blacklist_config,   \* Miner: self.config.blacklist
    dendrite_hotkey,    \* synapse.dendrite.hotkey of the last blacklist call (0: None)
    verdict             \* how the last call of Miner.blacklist ended

vars == <<api_enabled, api_exclusive, should_exit, api_queue, input_synapse,
          event, output_synapse, ppc, ret, pc, synapse_with_event,
          available_uids, chosen_uids, responses, selected_response, path,
          winner, deq_count, write_count, ret_count, interrupted, exit_iters,
          metagraph, hotkeys, scores, score_exp, alpha_num, raw_weights, norm,
          last_op, outcome, is_running, threads, caller, co, applied, args,
          miner_metagraph, blacklist_config, dendrite_hotkey, verdict>>

cfgVars == <<api_enabled, api_exclusive>>
bridgeVars == <<api_queue, input_synapse, event, output_synapse>>
prodVars == <<ppc, ret, ret_count>>
localVars == <<available_uids, chosen_uids, responses, selected_response>>
histVars == <<winner, deq_count, write_count>>
runVars == <<interrupted, exit_iters>>
lifeVars == <<is_running, threads, caller>>
fwdVars == <<co, applied>>
minerVars == <<miner_metagraph, blacklist_config, dendrite_hotkey, verdict>>
partVars == <<lifeVars, fwdVars, args, minerVars>>
repVars == <<metagraph, hotkeys, scores, score_exp, alpha_num, raw_weights,
             norm, last_op, outcome>>
dispatchVars == <<cfgVars, should_exit, bridgeVars, prodVars, pc,
                  synapse_with_event, localVars, path, histVars, runVars,
                  partVars>>

\* ------------------------------------------------------------ data values
NoneResponse == [for |-> 0, idx |-> 0, n |-> 0]

\* The copy of the input built at submit time (output_synapse=BitrecsRequest(...)).
Placeholder(p) == [for |-> p, idx |-> 0, n |-> 0]

Min(a, b) == IF a < b THEN a ELSE b
Max(a, b) == IF a > b THEN a ELSE b

\* clamp(min, max, x) of template.utils.uids
Clamp(lo, hi, x) == Max(lo, Min(hi, x))

\* The elements of a set of integers as an increasing sequence.
RECURSIVE SortedSeq(_)
SortedSeq(S) ==
    IF S = {} THEN <<>>
    ELSE LET m == CHOOSE x \in S : \A y \in S : x <= y
         IN <<m>> \o SortedSeq(S \ {m})

\* get_random_uids(self, k): at most k pairwise distinct uids of the metagraph.
GetRandomUids(universe, k) ==
    {SortedSeq(S) : S \in {T \in SUBSET universe : Cardinality(T) <= k}}

\* Variant of the sample size without the clamp.
SampleSizeUnclamped(available) == Len(available)

\* k=clamp(min=1, max=10, x=len(available_uids))
SampleSize(available) == Clamp(ClampMin, ClampMax, Len(available))

\* random.sample raises ValueError when k exceeds the population.
SampleRaises(population, k) == k > Len(population) \/ k < 0

\* random.sample(population, k): k elements at pairwise distinct positions
\* (listed here in position order; the order of the sample is not used).
Sample(population, k) ==
    {[i \in 1..k |-> population[SortedSeq(P)[i]]] :
        P \in {Q \in SUBSET (1..Len(population)) : Cardinality(Q) = k}}

\* The batches dendrite.query can return for request p: at most maxlen
\* responses, each with a result list of any of the lengths ResultCounts.
Batches(p, maxlen) ==
    UNION {{[i \in 1..len |-> [for |-> p, idx |-> i, n |-> c[i]]] :
                c \in [1..len -> ResultCounts]} :
           len \in 0..maxlen}

\* Variant of select_top_result accepting a response with at least num_results.
RECURSIVE select_top_result_atleast(_, _)
select_top_result_atleast(num_results, miner_results) ==
    IF miner_results = <<>> THEN NoneResponse
    ELSE IF Head(miner_results).n >= num_results THEN Head(miner_results)
    ELSE select_top_result_atleast(num_results, Tail(miner_results))

\* select_top_result: first r with len(r.results) == num_results, else None.
RECURSIVE select_top_result(_, _)
select_top_result(num_results, miner_results) ==
    IF miner_results = <<>> THEN NoneResponse
    ELSE IF Head(miner_results).n = num_results THEN Head(miner_results)
    ELSE select_top_result(num_results, Tail(miner_results))

\* Variant of api_queue.get that leaves the item on the queue.
QueueGetPeek(q) == [item |-> Head(q), rest |-> q]

\* Variant of api_queue.get that takes the newest item (a LifoQueue).
QueueGetLifo(q) == [item |-> q[Len(q)], rest |-> SubSeq(q, 1, Len(q) - 1)]

\* api_queue.get: the oldest item and the remaining queue.
QueueGet(q) == [item |-> Head(q), rest |-> Tail(q)]

\* Variant of the completion that does not store the selected response.
WriteOutputSkipped(out, p, r) == out

\* synapse_with_event.output_synapse = selected_response
WriteOutput(out, p, r) == [out EXCEPT ![p] = r]

\* synapse_with_event.event.set()
SetEvent(ev, p) == [ev EXCEPT ![p] = TRUE]

\* Variant of api_forward that does not block on the event.
EventWaitNoBlock(ev, p) == TRUE

\* synapse_with_event.event.wait returns
EventWait(ev, p) == ev[p]

\* ------------------------------------------------- the reputation engine
\* A float is a record [kind, v]: a finite number with numerator v, NaN, or
\* an infinity.  The numerators of self.scores are taken over the common
\* denominator AlphaDen^score_exp, so the moving average is computed exactly;
\* the rounding of float32 is not modelled.
Fin(v) == [kind |-> "fin", v |-> v]
NaN == [kind |-> "nan", v |-> 0]
PInf == [kind |-> "pinf", v |-> 0]
NInf == [kind |-> "ninf", v |-> 0]

IsNaN(x) == x.kind = "nan"
IsFinite(x) == x.kind = "fin"

RECURSIVE Pow(_, _)
Pow(b, e) == IF e = 0 THEN 1 ELSE b * Pow(b, e - 1)

\* c * x for a coefficient c >= 0 (0 * inf is NaN)
Mul(c, x) ==
    IF x.kind = "fin" THEN Fin(c * x.v)
    ELSE IF x.kind = "nan" THEN NaN
    ELSE IF c = 0 THEN NaN
    ELSE x

\* x + y (inf + -inf is NaN)
Add(x, y) ==
    IF x.kind = "nan" \/ y.kind = "nan" THEN NaN
    ELSE IF x.kind = "fin" /\ y.kind = "fin" THEN Fin(x.v + y.v)
    ELSE IF x.kind = "fin" THEN y
    ELSE IF y.kind = "fin" THEN x
    ELSE IF x.kind = y.kind THEN x
    ELSE NaN

\* abs(x)
Abs(x) ==
    IF x.kind = "fin" THEN Fin(IF x.v < 0 THEN 0 - x.v ELSE x.v)
    ELSE IF x.kind = "nan" THEN NaN
    ELSE PInf

\* np.zeros(n)
Zeros(n) == [i \in 1..n |-> Fin(0)]

\* self.metagraph.hotkeys: the hotkey of every axon, in uid order
MetagraphHotkeys(mg) == mg.hotkeys

\* self.metagraph.n
MetagraphN(mg) == Len(mg.hotkeys)

\* np.nan_to_num(rewards, nan=0): NaN becomes 0, an infinity the largest
\* finite float of its sign.
NanToNum(rewards) ==
    [i \in 1..Len(rewards) |->
        IF rewards[i].kind = "nan" THEN Fin(0)
        ELSE IF rewards[i].kind = "pinf" THEN Fin(FloatMax)
        ELSE IF rewards[i].kind = "ninf" THEN Fin(0 - FloatMax)
        ELSE rewards[i]]

\* Lines 524-528: rewards are passed through nan_to_num only when one is NaN.
SanitizedRewards(rewards) ==
    IF \E i \in 1..Len(rewards) : IsNaN(rewards[i])
    THEN NanToNum(rewards)
    ELSE rewards

\* a scatter that adds up the rewards of a repeated uid
RECURSIVE ScatterAdd(_, _, _)
ScatterAdd(vec, uids, rewards) ==
    IF uids = <<>> THEN vec
    ELSE ScatterAdd([vec EXCEPT ![Head(uids) + 1] = Add(@, Head(rewards))],
                    Tail(uids), Tail(rewards))

\* Lines 556-557: scattered_rewards[uids_array] = rewards; uids are 0-based
\* and a repeated uid keeps the reward assigned last.
RECURSIVE Scatter(_, _, _)
Scatter(vec, uids, rewards) ==
    IF uids = <<>> THEN vec
    ELSE Scatter([vec EXCEPT ![Head(uids) + 1] = Head(rewards)],
                 Tail(uids), Tail(rewards))

\* a moving average that forgets to decay the old scores
MovingAverageNoDecay(sc, k, a, scattered) ==
    [i \in 1..Len(sc) |->
        Add(Mul(a * Pow(AlphaDen, k), scattered[i]), Mul(AlphaDen, sc[i]))]

\* Lines 562-565: alpha * scattered_rewards + (1 - alpha) * self.scores, with
\* alpha = a / AlphaDen and the scores over AlphaDen^k; the result is over
\* AlphaDen^(k+1).
MovingAverage(sc, k, a, scattered) ==
    [i \in 1..Len(sc) |->
        Add(Mul(a * Pow(AlphaDen, k), scattered[i]),
            Mul(AlphaDen - a, sc[i]))]

\* update_scores without the test for an empty batch of lines 540-545
update_scores_unguarded(sc, k, a, rewards, uids) ==
    LET rw == SanitizedRewards(rewards)
    IN IF Len(rw) # Len(uids)
       THEN [scores |-> sc, exp |-> k, outcome |-> "raised"]
       ELSE IF \E i \in 1..Len(uids) : uids[i] >= Len(sc)
       THEN [scores |-> sc, exp |-> k, outcome |-> "raised"]
       ELSE [scores |-> MovingAverage(sc, k, a,
                                      Scatter(Zeros(Len(sc)), uids, rw)),
             exp |-> k + 1,
             outcome |-> "ok"]

\* update_scores(rewards, uids) on scores sc over AlphaDen^k:
\* the new scores, their exponent and how the call ended.
update_scores(sc, k, a, rewards, uids) ==
    LET rw == SanitizedRewards(rewards)
    IN IF Len(rw) = 0 \/ Len(uids) = 0
       THEN [scores |-> sc, exp |-> k, outcome |-> "noop"]
       ELSE IF Len(rw) # Len(uids)
       THEN [scores |-> sc, exp |-> k, outcome |-> "raised"]
       ELSE IF \E i \in 1..Len(uids) : uids[i] >= Len(sc)
       THEN [scores |-> sc, exp |-> k, outcome |-> "raised"]
       ELSE [scores |-> MovingAverage(sc, k, a,
                                      Scatter(Zeros(Len(sc)), uids, rw)),
             exp |-> k + 1,
             outcome |-> "ok"]

\* Lines 504-507: the slots of the stored hotkeys, in uid order, up to the
\* first one the new metagraph or the scores do not have (IndexError there).
ZeroReplaced(hk, sc, newhk) ==
    LET bad == {i \in 1..Len(hk) :
                   i > Len(newhk) \/ (hk[i] # newhk[i] /\ i > Len(sc))}
        stop == IF bad = {} THEN Len(hk) + 1
                ELSE CHOOSE i \in bad : \A j \in bad : i <= j
    IN [scores |-> [i \in 1..Len(sc) |->
                       IF i < stop /\ i <= Len(hk) /\ hk[i] # newhk[i]
                       THEN Fin(0) ELSE sc[i]],
        raised |-> bad # {}]

\* Lines 511-516: a longer metagraph gets a fresh zero vector of its size
\* with the first min(len(hotkeys), len(scores)) scores copied over.
ExtendScores(hk, sc, newhk) ==
    IF Len(hk) < Len(newhk)
    THEN LET min_len == Min(Len(hk), Len(sc))
         IN [i \in 1..Len(newhk) |-> IF i <= min_len THEN sc[i] ELSE Fin(0)]
    ELSE sc

\* Line 498: previous_metagraph.axons == self.metagraph.axons; two axon lists
\* are equal when they agree on every field, the hotkey included.
AxonsEqual(old, new) == old.hotkeys = new.hotkeys /\ old.info = new.info

\* resync_metagraph with stored hotkeys hk and scores sc, the metagraph going
\* from old to new at line 495.
resync_metagraph(hk, sc, old, new) ==
    IF AxonsEqual(old, new)
    THEN [hotkeys |-> hk, scores |-> sc, outcome |-> "skipped"]
    ELSE LET z == ZeroReplaced(hk, sc, MetagraphHotkeys(new))
         IN IF z.raised
            THEN [hotkeys |-> hk, scores |-> z.scores, outcome |-> "raised"]
            ELSE [hotkeys |-> MetagraphHotkeys(new),
                  scores |-> ExtendScores(hk, z.scores, MetagraphHotkeys(new)),
                  outcome |-> "ok"]

\* Line 397: np.all(self.scores == 0)
AllZero(sc) == \A i \in 1..Len(sc) : sc[i] = Fin(0)

\* Line 406: np.linalg.norm(self.scores, ord=1)
RECURSIVE L1Norm(_)
L1Norm(sc) == IF sc = <<>> THEN Fin(0) ELSE Add(Abs(Head(sc)), L1Norm(Tail(sc)))

\* Lines 406-410: the divisor of raw_weights, over AlphaDen^k like the scores;
\* a zero or NaN norm is replaced by 1.
SafeNorm(sc, k) ==
    LET nm == L1Norm(sc)
    IN IF nm = Fin(0) \/ IsNaN(nm) THEN Fin(Pow(AlphaDen, k)) ELSE nm

\* scores[i] / norm as a fraction; the common denominator of scores and norm
\* cancels.  norm is never 0 or NaN here (lines 409-410).
Quot(x, nm) ==
    IF x.kind = "nan" THEN [kind |-> "nan", num |-> 0, den |-> 1]
    ELSE IF nm.kind # "fin"
    THEN IF x.kind = "fin" THEN [kind |-> "fin", num |-> 0, den |-> 1]
         ELSE [kind |-> "nan", num |-> 0, den |-> 1]
    ELSE IF x.kind = "fin" THEN [kind |-> "fin", num |-> x.v, den |-> nm.v]
    ELSE [kind |-> x.kind, num |-> 0, den |-> 1]

\* Line 415: raw_weights = self.scores / norm
RawWeights(sc, nm) == [i \in 1..Len(sc) |-> Quot(sc[i], nm)]

\* set_weights without the all-zero check of lines 397-401
set_weights_unguarded(sc, k, fate) ==
    LET nm == SafeNorm(sc, k)
    IN [raw_weights |-> RawWeights(sc, nm),
        norm |-> nm,
        outcome |-> IF fate = "process_fails" THEN "raised"
                    ELSE IF fate = "convert_fails" THEN "abandoned"
                    ELSE IF fate = "ledger_raises" THEN "ledger_raised"
                    ELSE IF fate = "ledger_rejects" THEN "ledger_rejected"
                    ELSE "emitted"]

\* set_weights on scores sc over AlphaDen^k; fate says which of
\* process_weights_for_netuid, convert_weights_and_uids_for_emit and
\* subtensor.set_weights fails.  A failed process_weights_for_netuid leaves
\* processed_weight_uids unbound and line 447 raises out of set_weights; a
\* failed conversion leaves uint_uids unbound and the NameError of line 471
\* is caught at line 483 before the ledger is called.
set_weights(sc, k, fate) ==
    IF AllZero(sc)
    THEN [raw_weights |-> <<>>, norm |-> Fin(0), outcome |-> "skipped"]
    ELSE LET nm == SafeNorm(sc, k)
         IN [raw_weights |-> RawWeights(sc, nm),
             norm |-> nm,
             outcome |-> IF fate = "process_fails" THEN "raised"
                         ELSE IF fate = "convert_fails" THEN "abandoned"
                         ELSE IF fate = "ledger_raises" THEN "ledger_raised"
                         ELSE IF fate = "ledger_rejects" THEN "ledger_rejected"
                         ELSE "emitted"]

\* ------------------------------------------------------------------- Init
\* The dispatch side after __init__ (lines 101-145) and before run().
DispatchInit ==
    /\ api_enabled \in BOOLEAN
    /\ api_exclusive \in BOOLEAN
    /\ should_exit = FALSE
    /\ api_queue = <<>>
    /\ input_synapse = [p \in Producers |-> 0]
    /\ event = [p \in Producers |-> FALSE]
    /\ output_synapse = [p \in Producers |-> NoneResponse]
    /\ ppc = [p \in Producers |-> "idle"]
    /\ ret = [p \in Producers |-> NoneResponse]
    /\ pc = "start"
    /\ synapse_with_event = 0
    /\ available_uids = <<>>
    /\ chosen_uids = <<>>
    /\ responses = <<>>
    /\ selected_response = NoneResponse
    /\ path = "none"
    /\ winner = [p \in Producers |-> NoneResponse]
    /\ deq_count = [p \in Producers |-> 0]
    /\ write_count = [p \in Producers |-> 0]
    /\ ret_count = [p \in Producers |-> 0]
    /\ interrupted = FALSE
    /\ exit_iters = 0

\* The reputation engine after __init__: hotkeys copied from the metagraph
\* (line 105), scores all zero (line 116), no method called yet.
EngineInit(mg, a) ==
    /\ metagraph = mg
    /\ hotkeys = MetagraphHotkeys(mg)
    /\ scores = Zeros(MetagraphN(mg))
    /\ score_exp = 0
    /\ alpha_num = a
    /\ raw_weights = <<>>
    /\ norm = Fin(0)
    /\ last_op = "none"
    /\ outcome = "none"

\* The metagraph of the dispatch model: NumUids miners, uid u with hotkey u + 1.
BootMetagraph == [hotkeys |-> [i \in 1..NumUids |-> i], info |-> 0]

\* No thread started (lines 142-144), no concurrent_forward under way.
NoArgs == [rewards |-> <<>>, uids |-> <<>>]

LifeInit ==
    /\ is_running = FALSE
    /\ threads = [t \in 1..MaxThreads |-> "unstarted"]
    /\ caller = "idle"

ForwardIdle == co = <<>> /\ applied = <<>>

\* A miner that has not been asked for a blacklist decision yet: alone in its
\* metagraph, with the defaults of the blacklist configuration.
NoVerdict == [kind |-> "none", blacklisted |-> FALSE, reason |-> ""]

MinerIdle ==
    /\ miner_metagraph = [hotkeys |-> <<1>>, validator_permit |-> <<TRUE>>]
    /\ blacklist_config = [allow_non_registered |-> FALSE,
                           force_validator_permit |-> FALSE]
    /\ dendrite_hotkey = 0
    /\ verdict = NoVerdict

PartsIdle == LifeInit /\ ForwardIdle /\ args = NoArgs /\ MinerIdle

Init == DispatchInit /\ EngineInit(BootMetagraph, 1) /\ PartsIdle

\* ------------------------------------------------- producers: api_forward
\* Lines 60-82: build a fresh SynapseWithEvent and put it on api_queue.
\* api_forward is only reachable through the ApiServer, started when
\* config.api.enabled (lines 130-138).
Submit(p, nr) ==
    /\ api_enabled
    /\ ppc[p] \in {"idle", "returned"}
    /\ input_synapse' = [input_synapse EXCEPT ![p] = nr]
    /\ event' = [event EXCEPT ![p] = FALSE]
    /\ output_synapse' = [output_synapse EXCEPT ![p] = Placeholder(p)]
    /\ api_queue' = Append(api_queue, p)
    /\ ppc' = [ppc EXCEPT ![p] = "waiting"]
    /\ ret' = [ret EXCEPT ![p] = NoneResponse]
    /\ winner' = [winner EXCEPT ![p] = NoneResponse]
    /\ deq_count' = [deq_count EXCEPT ![p] = 0]
    /\ write_count' = [write_count EXCEPT ![p] = 0]
    /\ ret_count' = [ret_count EXCEPT ![p] = 0]
    /\ UNCHANGED <<repVars, partVars, runVars, cfgVars, should_exit, pc, synapse_with_event, localVars, path>>

\* Line 84: await anyio.to_thread.run_sync(synapse_with_event.event.wait)
Wake(p) ==
    /\ ppc[p] = "waiting"
    /\ EventWait(event, p)
    /\ ppc' = [ppc EXCEPT ![p] = "woken"]
    /\ UNCHANGED <<repVars, partVars, runVars, cfgVars, should_exit, bridgeVars, ret, ret_count, pc,
                   synapse_with_event, localVars, path, histVars>>

\* Line 85: return synapse_with_event.output_synapse
Return(p) ==
    /\ ppc[p] = "woken"
    /\ ret' = [ret EXCEPT ![p] = output_synapse[p]]
    /\ ret_count' = [ret_count EXCEPT ![p] = @ + 1]
    /\ ppc' = [ppc EXCEPT ![p] = "returned"]
    /\ UNCHANGED <<repVars, partVars, runVars, cfgVars, should_exit, bridgeVars, pc, synapse_with_event,
                   localVars, path, histVars>>

\* the branch of line 294 taken without looking at api_exclusive
DequeueIgnoresExclusive ==
    /\ pc = "start"
    /\ LET got == IF api_queue = <<>> THEN [item |-> 0, rest |-> <<>>]
                  ELSE QueueGet(api_queue)
       IN /\ synapse_with_event' = got.item
          /\ api_queue' = got.rest
          /\ deq_count' = IF got.item = 0 THEN deq_count
                          ELSE [deq_count EXCEPT ![got.item] = @ + 1]
          /\ IF got.item # 0 /\ api_enabled
             THEN pc' = "select" /\ path' = "api"
             ELSE pc' = "synthetic" /\ path' = "synthetic"
    /\ available_uids' = <<>>
    /\ chosen_uids' = <<>>
    /\ responses' = <<>>
    /\ selected_response' = NoneResponse
    /\ exit_iters' = IF should_exit THEN Min(MaxExitIters, exit_iters + 1)
                     ELSE exit_iters
    /\ UNCHANGED <<repVars, partVars, interrupted, cfgVars, should_exit, input_synapse,
                   event, output_synapse, prodVars, winner, write_count>>

\* ------------------------------------------------------- the loop: run()
\* Lines 226-242 and 293-294: poll api_queue and choose the source path.
Dequeue ==
    /\ pc = "start"
    /\ LET got == IF api_queue = <<>> THEN [item |-> 0, rest |-> <<>>]
                  ELSE QueueGet(api_queue)
       IN /\ synapse_with_event' = got.item
          /\ api_queue' = got.rest
          /\ deq_count' = IF got.item = 0 THEN deq_count
                          ELSE [deq_count EXCEPT ![got.item] = @ + 1]
          /\ IF got.item # 0 /\ api_enabled
             THEN pc' = "select" /\ path' = "api"
             ELSE IF ~api_exclusive
                  THEN pc' = "synthetic" /\ path' = "synthetic"
                  ELSE pc' = "check_exit" /\ path' = "idle"
    /\ available_uids' = <<>>
    /\ chosen_uids' = <<>>
    /\ responses' = <<>>
    /\ selected_response' = NoneResponse
    /\ exit_iters' = IF should_exit THEN Min(MaxExitIters, exit_iters + 1)
                     ELSE exit_iters
    /\ UNCHANGED <<repVars, partVars, interrupted, cfgVars, should_exit, input_synapse,
                   event, output_synapse, prodVars, winner, write_count>>

\* Line 245: available_uids = get_random_uids(self, k=sample_size)
SelectPeers ==
    /\ pc = "select"
    /\ \E av \in GetRandomUids(Uids, sample_size) : available_uids' = av
    /\ pc' = "sample"
    /\ UNCHANGED <<repVars, partVars, runVars, cfgVars, should_exit, bridgeVars, prodVars,
                   synapse_with_event, chosen_uids, responses,
                   selected_response, path, histVars>>

\* Lines 256-265: chosen_uids = random.sample(available_uids, k=clamp(...))
SampleUids ==
    /\ pc = "sample"
    /\ LET k == SampleSize(available_uids)
       IN IF SampleRaises(available_uids, k)
          THEN /\ pc' = "except"
               /\ path' = "exception"
               /\ UNCHANGED chosen_uids
          ELSE /\ \E ch \in Sample(available_uids, k) : chosen_uids' = ch
               /\ pc' = "query"
               /\ UNCHANGED path
    /\ UNCHANGED <<repVars, partVars, runVars, cfgVars, should_exit, bridgeVars, prodVars,
                   synapse_with_event, available_uids, responses,
                   selected_response, histVars>>

\* Lines 268-280: responses = self.dendrite.query(chosen_axons, api_request, ...)
\* The call is not wrapped in a try of its own: an error of the transport
\* reaches the handler of line 309.
Query ==
    /\ pc = "query"
    /\ \/ /\ \E b \in Batches(synapse_with_event,
                              Min(Len(chosen_uids), MaxResponses)) :
                responses' = b
          /\ pc' = "arbitrate"
          /\ UNCHANGED path
       \/ /\ pc' = "except"
          /\ path' = "exception"
          /\ UNCHANGED responses
    /\ available_uids' = <<>>
    /\ chosen_uids' = <<>>
    /\ UNCHANGED <<repVars, partVars, runVars, cfgVars, should_exit, bridgeVars, prodVars,
                   synapse_with_event, selected_response, histVars>>

\* Lines 283-286: select_top_result; None leads to `continue`.
Arbitrate ==
    /\ pc = "arbitrate"
    /\ LET sel == select_top_result(input_synapse[synapse_with_event], responses)
       IN /\ selected_response' = sel
          /\ winner' = [winner EXCEPT ![synapse_with_event] = sel]
          /\ IF sel = NoneResponse
             THEN pc' = "finally" /\ path' = "miss"
             ELSE pc' = "write" /\ UNCHANGED path
    /\ UNCHANGED <<repVars, partVars, runVars, cfgVars, should_exit, bridgeVars, prodVars,
                   synapse_with_event, available_uids, chosen_uids, responses,
                   deq_count, write_count>>

\* Line 288: synapse_with_event.output_synapse = selected_response
Write ==
    /\ pc = "write"
    /\ output_synapse' = WriteOutput(output_synapse, synapse_with_event,
                                     selected_response)
    /\ write_count' = [write_count EXCEPT ![synapse_with_event] = @ + 1]
    /\ pc' = "set"
    /\ UNCHANGED <<repVars, partVars, runVars, cfgVars, should_exit, api_queue, input_synapse, event,
                   prodVars, synapse_with_event, localVars, path, winner,
                   deq_count>>

\* Line 291: synapse_with_event.event.set()
\* (responses and selected_response are not read again in the iteration:
\* the model forgets them here.)
Set ==
    /\ pc = "set"
    /\ event' = SetEvent(event, synapse_with_event)
    /\ path' = "winner"
    /\ pc' = "check_exit"
    /\ responses' = <<>>
    /\ selected_response' = NoneResponse
    /\ UNCHANGED <<repVars, partVars, runVars, cfgVars, should_exit, api_queue, input_synapse,
                   output_synapse, prodVars, synapse_with_event,
                   available_uids, chosen_uids, histVars>>

\* Lines 294-296: self.loop.run_until_complete(self.concurrent_forward());
\* forward() is supplied by the subclass and may raise.
Synthetic ==
    /\ pc = "synthetic"
    /\ \/ pc' = "check_exit" /\ UNCHANGED path
       \/ pc' = "except" /\ path' = "exception"
    /\ UNCHANGED <<repVars, partVars, runVars, cfgVars, should_exit, bridgeVars, prodVars,
                   synapse_with_event, localVars, histVars>>

\* Lines 298-299: if self.should_exit: return
CheckExit ==
    /\ pc = "check_exit"
    /\ pc' = IF should_exit THEN "finally_return" ELSE "sync"
    /\ UNCHANGED <<repVars, partVars, runVars, cfgVars, should_exit, bridgeVars, prodVars,
                   synapse_with_event, localVars, path, histVars>>

\* Lines 301-307: self.sync() with its own handler, then step += 1.
Sync ==
    /\ pc = "sync"
    /\ pc' = "finally"
    /\ UNCHANGED <<repVars, partVars, runVars, cfgVars, should_exit, bridgeVars, prodVars,
                   synapse_with_event, localVars, path, histVars>>

\* a handler that lets the exception leave the while loop
ExceptEndsLoop ==
    /\ pc = "except"
    /\ pc' = "done"
    /\ UNCHANGED <<repVars, partVars, runVars, cfgVars, should_exit, bridgeVars, prodVars,
                   synapse_with_event, localVars, path, histVars>>

\* Lines 309-311: except Exception: log, time.sleep(60)
Except ==
    /\ pc = "except"
    /\ pc' = "finally"
    /\ UNCHANGED <<repVars, partVars, runVars, cfgVars, should_exit, bridgeVars, prodVars,
                   synapse_with_event, localVars, path, histVars>>

\* Lines 312-319: finally: sleep unless api_enabled and api_exclusive;
\* then the next iteration, or the end of run() after `return`.  The locals
\* of the iteration are dead from here on and the model forgets them.
Finally ==
    /\ pc \in {"finally", "finally_return"}
    /\ pc' = IF pc = "finally_return" THEN "done" ELSE "start"
    /\ available_uids' = <<>>
    /\ chosen_uids' = <<>>
    /\ responses' = <<>>
    /\ selected_response' = NoneResponse
    /\ UNCHANGED <<repVars, partVars, runVars, cfgVars, should_exit, bridgeVars, prodVars,
                   synapse_with_event, path, histVars>>

\* Lines 348-354: stop_run_thread sets self.should_exit = True
Stop ==
    /\ ~should_exit
    /\ should_exit' = TRUE
    /\ UNCHANGED <<repVars, partVars, runVars, cfgVars, bridgeVars, prodVars, pc, synapse_with_event,
                   localVars, path, histVars>>

\* Lines 322-325: a KeyboardInterrupt raised anywhere inside the loop is not
\* an Exception; it leaves the while loop, stops the axon and exits.
KeyboardInterrupt ==
    /\ pc # "done"
    /\ pc' = "done"
    /\ interrupted' = TRUE
    /\ UNCHANGED <<repVars, partVars, exit_iters, cfgVars, should_exit, bridgeVars,
                   prodVars, synapse_with_event, localVars, path, histVars>>

LoopNext ==
    \/ Dequeue
    \/ SelectPeers
    \/ SampleUids
    \/ Query
    \/ Arbitrate
    \/ Write
    \/ Set
    \/ Synthetic
    \/ CheckExit
    \/ Sync
    \/ Except
    \/ Finally

ProducerNext ==
    \/ \E p \in Producers : \E nr \in RequestedCounts : Submit(p, nr)
    \/ \E p \in Producers : Wake(p)
    \/ \E p \in Producers : Return(p)

Next == LoopNext \/ ProducerNext \/ Stop \/ KeyboardInterrupt

Spec == Init /\ [][Next]_vars

\* The validator while nobody asks it to stop: the loop thread, and a
\* producer whose wait can return, keep being scheduled.
LiveSpec ==
    /\ Init
    /\ [][LoopNext \/ ProducerNext]_vars
    /\ WF_vars(LoopNext)
    /\ \A p \in Producers : WF_vars(Wake(p) \/ Return(p))

TypeOK ==
    /\ pc \in {"start", "select", "sample", "query", "arbitrate", "write",
               "set", "synthetic", "check_exit", "sync", "except", "finally",
               "finally_return", "done"}
    /\ synapse_with_event \in 0..NumProducers
    /\ \A p \in Producers : ppc[p] \in {"idle", "waiting", "woken", "returned"}
    /\ interrupted \in BOOLEAN
    /\ exit_iters \in 0..MaxExitIters
    /\ Len(scores) >= Len(hotkeys)
    /\ score_exp \in 0..MaxUpdates
    /\ verdict.kind \in {"none", "returned", "raised"}
    /\ Len(miner_metagraph.validator_permit) = Len(miner_metagraph.hotkeys)

\* ------------------------------------------- specifications of the parts
\* The state in which producer p has submitted a request for nr results and
\* run() has taken it from api_queue (lines 60-84 and 234-243).
HeldInit(p, nr) ==
    /\ api_enabled = TRUE
    /\ api_exclusive = FALSE
    /\ should_exit = FALSE
    /\ api_queue = <<>>
    /\ input_synapse = [q \in Producers |-> IF q = p THEN nr ELSE 0]
    /\ ppc = [q \in Producers |-> IF q = p THEN "waiting" ELSE "idle"]
    /\ ret = [q \in Producers |-> NoneResponse]
    /\ synapse_with_event = p
    /\ path = "api"
    /\ deq_count = [q \in Producers |-> IF q = p THEN 1 ELSE 0]
    /\ ret_count = [q \in Producers |-> 0]
    /\ interrupted = FALSE
    /\ exit_iters = 0
    /\ EngineInit(BootMetagraph, 1)
    /\ PartsIdle

FreshSlots(p) ==
    /\ event = [q \in Producers |-> FALSE]
    /\ output_synapse = [q \in Producers |->
                            IF q = p THEN Placeholder(p) ELSE NoneResponse]
    /\ winner = [q \in Producers |-> NoneResponse]
    /\ write_count = [q \in Producers |-> 0]

\* Peer selection (lines 256-265) applied to every list get_random_uids can
\* return for a metagraph of MaxUids uids.
SelectorInit ==
    /\ HeldInit(1, 5)
    /\ FreshSlots(1)
    /\ pc = "sample"
    /\ available_uids \in GetRandomUids(0..(MaxUids - 1), sample_size)
    /\ chosen_uids = <<>>
    /\ responses = <<>>
    /\ selected_response = NoneResponse

SelectorSpec == SelectorInit /\ [][SampleUids]_vars

\* Arbitration (lines 283-286) applied to every batch of at most MaxBatch
\* responses and every requested count.
ArbiterInit ==
    /\ \E nr \in ResultCounts : HeldInit(1, nr)
    /\ FreshSlots(1)
    /\ pc = "arbitrate"
    /\ available_uids = <<>>
    /\ chosen_uids = <<>>
    /\ responses \in Batches(1, MaxBatch)
    /\ selected_response = NoneResponse

ArbiterSpec == ArbiterInit /\ [][Arbitrate]_vars

AllResponses(p) ==
    {[for |-> p, idx |-> i, n |-> c] : i \in 1..MaxResponses, c \in ResultCounts}

\* The completion statements (lines 288-291) applied to a SynapseWithEvent
\* that is fresh or has already been completed with some response.
SecondCompleteInit ==
    \E p \in Producers :
        /\ HeldInit(p, 5)
        /\ pc = "write"
        /\ available_uids = <<>>
        /\ chosen_uids = <<>>
        /\ responses = <<>>
        /\ selected_response \in AllResponses(p)
        /\ \/ FreshSlots(p)
           \/ \E first \in AllResponses(p) :
                /\ event = [q \in Producers |-> q = p]
                /\ output_synapse = [q \in Producers |->
                                        IF q = p THEN first ELSE NoneResponse]
                /\ winner = [q \in Producers |->
                                IF q = p THEN first ELSE NoneResponse]
                /\ write_count = [q \in Producers |-> IF q = p THEN 1 ELSE 0]

SecondCompleteSpec == SecondCompleteInit /\ [][Write \/ Set]_vars

\* The reputation engine on its own: resync_metagraph, update_scores and
\* set_weights called in any order, as sync() and forward() call them, on
\* every metagraph of at most MaxN miners and every batch of at most
\* MaxRewards rewards.
HotkeyLists ==
    {h \in UNION {[1..n -> 1..NumKeys] : n \in 1..MaxN} :
        \A i, j \in 1..Len(h) : i # j => h[i] # h[j]}

Metagraphs == {[hotkeys |-> h, info |-> x] : h \in HotkeyLists, x \in {0, 1}}

\* what a reward function can hand to update_scores
RewardValues == {Fin(0), Fin(1), NaN, PInf, NInf}

RewardLists == UNION {[1..n -> RewardValues] : n \in 0..MaxRewards}

UidLists == UNION {[1..n -> 0..(MaxN - 1)] : n \in 0..MaxRewards}

\* moving_average_alpha: the smallest step and 1
Alphas == {1, AlphaDen}

\* what the ledger and the two weight transforms can do in one set_weights
Fates == {"process_fails", "convert_fails", "ledger_raises",
          "ledger_rejects", "ledger_accepts"}

Resync(new) ==
    LET r == resync_metagraph(hotkeys, scores, metagraph, new)
    IN /\ metagraph' = new
       /\ hotkeys' = r.hotkeys
       /\ scores' = r.scores
       /\ last_op' = "resync_metagraph"
       /\ outcome' = r.outcome
       /\ raw_weights' = <<>>
       /\ norm' = Fin(0)
       /\ UNCHANGED <<score_exp, alpha_num, dispatchVars>>

UpdateScores(rewards, uids) ==
    LET r == update_scores(scores, score_exp, alpha_num, rewards, uids)
    IN /\ score_exp < MaxUpdates
       /\ scores' = r.scores
       /\ score_exp' = r.exp
       /\ last_op' = "update_scores"
       /\ outcome' = r.outcome
       /\ raw_weights' = <<>>
       /\ norm' = Fin(0)
       /\ UNCHANGED <<metagraph, hotkeys, alpha_num, dispatchVars>>

SetWeights(fate) ==
    LET r == set_weights(scores, score_exp, fate)
    IN /\ raw_weights' = r.raw_weights
       /\ norm' = r.norm
       /\ last_op' = "set_weights"
       /\ outcome' = r.outcome
       /\ UNCHANGED <<metagraph, hotkeys, scores, score_exp, alpha_num,
                      dispatchVars>>

ReputationInit ==
    /\ DispatchInit
    /\ api_enabled = FALSE
    /\ api_exclusive = FALSE
    /\ \E mg \in Metagraphs : \E a \in Alphas : EngineInit(mg, a)
    /\ PartsIdle

ReputationNext ==
    \/ \E new \in Metagraphs : Resync(new)
    \/ \E rewards \in RewardLists : \E uids \in UidLists :
          UpdateScores(rewards, uids)
    \/ \E fate \in Fates : SetWeights(fate)

ReputationSpec == ReputationInit /\ [][ReputationNext]_vars

\* --------------------------------------------- starting and stopping run()
\* run_in_background_thread, stop_run_thread, __enter__ and __exit__ called
\* one after another by one controlling thread, and the threads they start.
\* Of run() only what the stop protocol depends on is kept: a thread is
\* inside an iteration or at the test of should_exit (line 298).
loopVars == <<cfgVars, bridgeVars, prodVars, pc, synapse_with_event,
              localVars, path, histVars, runVars>>

Started == Cardinality({t \in 1..MaxThreads : threads[t] # "unstarted"})

Alive == {t \in 1..MaxThreads : threads[t] \in {"iterating", "at_check"}}

\* Lines 340-345, also __enter__ (line 360)
RunInBackgroundThread ==
    /\ caller = "idle"
    /\ ~is_running
    /\ Started < MaxThreads
    /\ should_exit' = FALSE
    /\ threads' = [threads EXCEPT ![Started + 1] = "iterating"]
    /\ is_running' = TRUE
    /\ UNCHANGED <<caller, loopVars, repVars, fwdVars, args, minerVars>>

\* Lines 352-354, and the same statements of __exit__ (lines 376-378)
StopRunThread ==
    /\ caller = "idle"
    /\ is_running
    /\ should_exit' = TRUE
    /\ caller' = "joining"
    /\ UNCHANGED <<is_running, threads, loopVars, repVars, fwdVars, args, minerVars>>

\* Lines 355-356 (379-380): self.thread.join(5) returns when the thread has
\* ended or when the 5 seconds are over, whichever comes first.
JoinReturns ==
    /\ caller = "joining"
    /\ is_running' = FALSE
    /\ caller' = "idle"
    /\ UNCHANGED <<should_exit, threads, loopVars, repVars, fwdVars, args, minerVars>>

\* Lines 225-296 of one thread: an iteration up to the test of line 298
\* (an iteration that ends by `continue` or in the handler stays here).
ThreadIterate(t) ==
    /\ threads[t] = "iterating"
    /\ threads' = [threads EXCEPT ![t] = "at_check"]
    /\ UNCHANGED <<should_exit, is_running, caller, loopVars, repVars,
                   fwdVars, args, minerVars>>

\* Lines 298-299 of one thread, then the rest of the iteration
ThreadCheckExit(t) ==
    /\ threads[t] = "at_check"
    /\ threads' = [threads EXCEPT ![t] = IF should_exit THEN "ended"
                                         ELSE "iterating"]
    /\ UNCHANGED <<should_exit, is_running, caller, loopVars, repVars,
                   fwdVars, args, minerVars>>

LifecycleInit ==
    /\ DispatchInit
    /\ api_enabled = FALSE
    /\ api_exclusive = FALSE
    /\ EngineInit(BootMetagraph, 1)
    /\ PartsIdle

LifecycleNext ==
    \/ RunInBackgroundThread
    \/ StopRunThread
    \/ JoinReturns
    \/ \E t \in 1..MaxThreads : ThreadIterate(t)
    \/ \E t \in 1..MaxThreads : ThreadCheckExit(t)

LifecycleSpec == LifecycleInit /\ [][LifecycleNext]_vars

\* C22: at most one thread executes run() at any time, whatever the sequence
\* of starts and stops, also when the join of a stop timed out.
C22_SingleLoopThread == Cardinality(Alive) <= 1

\* ------------------------------------------------------ concurrent_forward
\* concurrent_forward gathers NumForwards coroutines of forward() on the one
\* event loop of the validator.  A coroutine runs until it awaits the round
\* trip to the miners, and after it is resumed it calls update_scores with
\* the rewards of its round; update_scores has no await, so the event loop
\* runs it in one piece.
FwdBatches ==
    {[rewards |-> <<r>>, uids |-> <<u>>] : r \in {Fin(0), Fin(1)}, u \in Uids}

\* what a coroutine that updates now reads as self.scores (line 564)
ScoresReadAtStart(c) == co[c].seen

ScoresRead(c) == [scores |-> scores, exp |-> score_exp]

\* Lines 172-176: the coroutines are created and handed to asyncio.gather
ConcurrentForward ==
    /\ co = <<>>
    /\ \E b \in [1..NumForwards -> FwdBatches] :
          co' = [c \in 1..NumForwards |->
                    [pc |-> "start", rewards |-> b[c].rewards,
                     uids |-> b[c].uids,
                     seen |-> [scores |-> scores, exp |-> score_exp]]]
    /\ UNCHANGED <<applied, repVars, should_exit, loopVars, lifeVars, args, minerVars>>

\* forward() up to its await of the miners' responses
CoAwait(c) ==
    /\ co # <<>>
    /\ co[c].pc = "start"
    /\ co' = [co EXCEPT ![c].pc = "awaiting",
                        ![c].seen = [scores |-> scores, exp |-> score_exp]]
    /\ UNCHANGED <<applied, repVars, should_exit, loopVars, lifeVars, args, minerVars>>

\* forward() resumed: update_scores(rewards, uids), lines 521-566
CoUpdate(c) ==
    /\ co # <<>>
    /\ co[c].pc = "awaiting"
    /\ LET old == ScoresRead(c)
           r == update_scores(old.scores, old.exp, alpha_num,
                              co[c].rewards, co[c].uids)
       IN /\ scores' = r.scores
          /\ score_exp' = r.exp
          /\ outcome' = r.outcome
    /\ last_op' = "update_scores"
    /\ raw_weights' = <<>>
    /\ norm' = Fin(0)
    /\ co' = [co EXCEPT ![c].pc = "done"]
    /\ applied' = Append(applied, c)
    /\ UNCHANGED <<metagraph, hotkeys, alpha_num, should_exit, loopVars, lifeVars, args, minerVars>>

ForwardInit ==
    /\ DispatchInit
    /\ api_enabled = FALSE
    /\ api_exclusive = FALSE
    /\ \E a \in Alphas : EngineInit(BootMetagraph, a)
    /\ PartsIdle

ForwardNext ==
    \/ ConcurrentForward
    \/ \E c \in 1..NumForwards : CoAwait(c)
    \/ \E c \in 1..NumForwards : CoUpdate(c)

ForwardSpec == ForwardInit /\ [][ForwardNext]_vars

\* the scores after the updates of the coroutines in cs, one after another
RECURSIVE ApplyInOrder(_, _)
ApplyInOrder(start, cs) ==
    IF cs = <<>> THEN start
    ELSE LET r == update_scores(start.scores, start.exp, alpha_num,
                                co[Head(cs)].rewards, co[Head(cs)].uids)
         IN ApplyInOrder([scores |-> r.scores, exp |-> r.exp], Tail(cs))

Memberships == {[hotkeys |-> [i \in 1..n |-> i], info |-> 0] : n \in 1..MaxN}

AllUids(n) == [i \in 1..n |-> i - 1]

CallArgs == {[rewards |-> r, uids |-> u] : r \in RewardLists, u \in UidLists}

UpdateInit ==
    /\ DispatchInit
    /\ api_enabled = FALSE
    /\ api_exclusive = FALSE
    /\ LifeInit
    /\ ForwardIdle
    /\ MinerIdle
    /\ \E mg \in Memberships : \E a \in Alphas :
          \E first \in [1..MetagraphN(mg) -> RewardValues] :
             LET r == update_scores(Zeros(MetagraphN(mg)), 0, a, first,
                                    AllUids(MetagraphN(mg)))
             IN /\ metagraph = mg
                /\ hotkeys = MetagraphHotkeys(mg)
                /\ alpha_num = a
                /\ scores = r.scores
                /\ score_exp = r.exp
                /\ outcome = r.outcome
    /\ last_op = "update_scores"
    /\ raw_weights = <<>>
    /\ norm = Fin(0)
    /\ args \in CallArgs

UpdateSpec ==
    UpdateInit /\ [][UpdateScores(args.rewards, args.uids)]_vars

\* ------------------------------------------------- the miner: blacklist
\* Miner.blacklist (src/neurons/miner.py) called by the axon with the synapse
\* built from the headers of an incoming request, for every metagraph of at
\* most MaxN hotkeys, every blacklist configuration and every caller.
Returned(b, msg) == [kind |-> "returned", blacklisted |-> b, reason |-> msg]

Raised(e) == [kind |-> "raised", blacklisted |-> FALSE, reason |-> e]

\* hotkey in self.metagraph.hotkeys
Registered(hks, hk) == \E i \in 1..Len(hks) : hks[i] = hk

\* self.metagraph.hotkeys.index(hotkey), 0-based, for a registered hotkey
IndexOf(hks, hk) ==
    (CHOOSE i \in 1..Len(hks) :
        hks[i] = hk /\ \A j \in 1..(i - 1) : hks[j] # hk) - 1

\* Lines 280-311.  The lookup of line 287 comes before the registration test
\* of lines 288-291 and raises ValueError for a hotkey that is not in the list.
blacklist(mg, cfg, hk) ==
    IF hk = 0
    THEN Returned(TRUE, "Missing dendrite or hotkey")
    ELSE IF ~Registered(mg.hotkeys, hk)
    THEN Raised("ValueError")
    ELSE LET uid == IndexOf(mg.hotkeys, hk)
         IN IF ~cfg.allow_non_registered /\ ~Registered(mg.hotkeys, hk)
            THEN Returned(TRUE, "Unrecognized hotkey")
            ELSE IF cfg.force_validator_permit /\ ~mg.validator_permit[uid + 1]
            THEN Returned(TRUE, "Non-validator hotkey")
            ELSE Returned(FALSE, "Hotkey recognized!")

MinerMetagraphs ==
    UNION {{[hotkeys |-> h, validator_permit |-> v] :
               v \in [1..Len(h) -> BOOLEAN]} : h \in HotkeyLists}

BlacklistConfigs ==
    [allow_non_registered : BOOLEAN, force_validator_permit : BOOLEAN]

\* the hotkey of a caller: None, a hotkey that may be registered, or one that
\* never is
CallerHotkeys == 0..(NumKeys + 1)

Blacklist(hk) ==
    /\ dendrite_hotkey' = hk
    /\ verdict' = blacklist(miner_metagraph, blacklist_config, hk)
    /\ UNCHANGED <<miner_metagraph, blacklist_config, should_exit, loopVars,
                   repVars, lifeVars, fwdVars, args>>

BlacklistInit ==
    /\ DispatchInit
    /\ api_enabled = FALSE
    /\ api_exclusive = FALSE
    /\ EngineInit(BootMetagraph, 1)
    /\ LifeInit
    /\ ForwardIdle
    /\ args = NoArgs
    /\ miner_metagraph \in MinerMetagraphs
    /\ blacklist_config \in BlacklistConfigs
    /\ dendrite_hotkey = 0
    /\ verdict = NoVerdict

BlacklistNext == \E hk \in CallerHotkeys : Blacklist(hk)

BlacklistSpec == BlacklistInit /\ [][BlacklistNext]_vars

\* ------------------------------------------------------------- properties
InQueue(p) == \E i \in 1..Len(api_queue) : api_queue[i] = p

\* C1: every request run() takes from api_queue is completed (its event is
\* set), whatever path the iteration takes after the dequeue.  run() keeps its
\* only reference to the object in the local synapse_with_event, rebound by
\* the next iteration, so the request is completed by the end of the iteration
\* that took it or never.
C1_DequeuedCompleted ==
    \A p \in Producers :
        (pc \in {"start", "done"} /\ synapse_with_event = p /\ deq_count[p] = 1)
            => event[p]

\* C2: an iteration of the API path in which select_top_result returned None
\* has completed the dequeued request (event set) by the time it ends.
C2_MissStillCompleted ==
    (pc = "start" /\ path = "miss") => event[synapse_with_event]

\* C3: when an iteration holding a dequeued request fails with an exception
\* caught at line 309, the producer blocked on that request is released: once
\* the handler and the finally block have run, its wait can return.
C3_ExceptionStillAnswered ==
    \A p \in Producers :
        (path = "exception" /\ pc \in {"start", "done"} /\ synapse_with_event = p)
            => (ppc[p] # "waiting" \/ EventWait(event, p))

\* C4: api_forward returns, exactly once, exactly the response select_top_result
\* chose for that request: not the placeholder, not a response to another request.
C4_RoundTrip ==
    \A p \in Producers :
        /\ ret_count[p] <= 1
        /\ ppc[p] = "returned" =>
              /\ ret_count[p] = 1
              /\ winner[p] # NoneResponse
              /\ ret[p] = winner[p]
              /\ ret[p] # Placeholder(p)
              /\ ret[p].for = p

C4_Witness ==
    \E p \in Producers :
        /\ ppc[p] = "returned"
        /\ ret[p].idx = 2
        /\ \E q \in Producers : q # p /\ ppc[q] = "waiting"

\* C5: the loop writes output_synapse before it sets the event, and
\* api_forward passes its wait and returns only after the event is set.
C5_CompleteBeforeReturn ==
    \A p \in Producers :
        /\ event[p] => (write_count[p] = 1 /\ output_synapse[p] = winner[p])
        /\ ppc[p] \in {"woken", "returned"} => event[p]

C5_Witness ==
    \E p \in Producers :
        ppc[p] = "returned" /\ event[p] /\ write_count[p] = 1

\* C6: a submitted request is taken from api_queue by at most one iteration,
\* is no longer queued once taken, and its result slot is written at most once.
C6_ConsumedOnceCompletedOnce ==
    \A p \in Producers :
        /\ deq_count[p] <= 1
        /\ write_count[p] <= 1
        /\ write_count[p] <= deq_count[p]
        /\ Cardinality({i \in 1..Len(api_queue) : api_queue[i] = p})
              + deq_count[p] <= 1
        /\ ppc[p] = "waiting" /\ ~event[p] =>
              Cardinality({i \in 1..Len(api_queue) : api_queue[i] = p})
                 + deq_count[p] = 1

C6_Witness ==
    \E p \in Producers :
        /\ deq_count[p] = 1
        /\ write_count[p] = 1
        /\ ~InQueue(p)
        /\ \E q \in Producers : q # p /\ InQueue(q)

C8_NoStarvation ==
    ([]<>(pc = "start")) =>
        \A p \in Producers : InQueue(p) ~> (deq_count[p] = 1)

C8_Witness ==
    /\ pc = "select"
    /\ synapse_with_event = 2
    /\ deq_count[1] = 1
    /\ InQueue(1) = FALSE
    /\ ppc[1] = "woken"

\* C9: select_top_result returns the lowest-index response whose result count
\* equals num_results, and None exactly when no response has that count.
C9_FirstExactMatch ==
    pc \in {"write", "finally"} /\ path \in {"api", "miss"} =>
        LET nr == input_synapse[synapse_with_event]
            matches == {i \in 1..Len(responses) : responses[i].n = nr}
        IN /\ (selected_response = NoneResponse) <=> (matches = {})
           /\ matches # {} =>
                 /\ selected_response.idx \in matches
                 /\ \A j \in matches : selected_response.idx <= j
                 /\ selected_response = responses[selected_response.idx]

C9_Witness ==
    /\ pc = "write"
    /\ Len(responses) = 3
    /\ responses[1].n = 3 /\ responses[2].n = 5 /\ responses[3].n = 5
    /\ input_synapse[synapse_with_event] = 5
    /\ selected_response.idx = 2

\* C10: for a non-empty available list the chosen uids are exactly
\* min(10, |available|) pairwise distinct uids of the available list, and
\* the selection raises nothing.
C10_ChosenSize ==
    LET n == Len(available_uids) IN
    /\ (pc = "except" /\ path = "exception") => n = 0
    /\ (pc = "query" /\ n > 0) =>
          /\ Len(chosen_uids) = (IF n > 10 THEN 10 ELSE n)
          /\ \A i, j \in 1..Len(chosen_uids) :
                i # j => chosen_uids[i] # chosen_uids[j]
          /\ \A i \in 1..Len(chosen_uids) :
                \E j \in 1..n : available_uids[j] = chosen_uids[i]

C10_Witness ==
    /\ pc = "query"
    /\ Len(available_uids) > 10
    /\ Len(chosen_uids) = 10

C10_WitnessSeven ==
    /\ pc = "query"
    /\ Len(available_uids) = 7
    /\ Len(chosen_uids) = 7

\* C11: when the available uid list is empty, peer selection raises no error
\* and yields an empty target set.
C11_EmptySelectsNothing ==
    (pc # "sample" /\ available_uids = <<>>) =>
        (pc = "query" /\ chosen_uids = <<>>)


\* ------------------------------------------- properties of the engine
NonNegFinite(sc) == \A i \in 1..Len(sc) : IsFinite(sc[i]) /\ sc[i].v >= 0

AllFinite(sc) == \A i \in 1..Len(sc) : IsFinite(sc[i])

\* every uid of the batch is a uid of the metagraph
InMembership(uids, mg) == \A i \in 1..Len(uids) : uids[i] < MetagraphN(mg)

RECURSIVE SumNum(_)
SumNum(ws) == IF ws = <<>> THEN 0 ELSE Head(ws).num + SumNum(Tail(ws))

\* C12: in every reachable state len(self.scores) is the size of the current
\* membership, the number of hotkeys of self.metagraph.
C12_ScoresMatchMembership == Len(scores) = MetagraphN(metagraph)

\* C13: a call of update_scores with uids inside the membership, on scores
\* that are non-negative and finite, keeps the length of scores and leaves
\* every entry non-negative and finite.
C13_UpdateKeepsScoresSound ==
    [][\A rewards \in RewardLists : \A uids \in UidLists :
          (/\ UpdateScores(rewards, uids)
           /\ InMembership(uids, metagraph)
           /\ NonNegFinite(scores))
          => (Len(scores') = Len(scores) /\ NonNegFinite(scores'))]_vars

\* C14: after resync_metagraph every slot whose hotkey in the new membership
\* differs from the stored hotkey has score 0, and every slot whose hotkey is
\* the stored one keeps its score.
C14_ReplacedSlotsReset ==
    [][\A new \in Metagraphs :
          Resync(new) =>
             \A i \in 1..Min(Len(hotkeys), MetagraphN(new)) :
                /\ hotkeys[i] # MetagraphHotkeys(new)[i] => scores'[i] = Fin(0)
                /\ hotkeys[i] = MetagraphHotkeys(new)[i] => scores'[i] = scores[i]]_vars

\* C15: when resync_metagraph sees the membership grow from n to m > n, scores
\* has length m afterwards, entries n..m-1 are 0 and entries 0..n-1 keep
\* their values unless their hotkey was replaced.
C15_GrowthExtendsWithZeros ==
    [][\A new \in Metagraphs :
          (Resync(new) /\ MetagraphN(metagraph) < MetagraphN(new)) =>
             LET n == MetagraphN(metagraph)
                 m == MetagraphN(new)
             IN /\ Len(scores') = m
                /\ \A i \in (n + 1)..Min(m, Len(scores')) : scores'[i] = Fin(0)
                /\ \A i \in 1..n :
                      hotkeys[i] = MetagraphHotkeys(new)[i]
                          => scores'[i] = scores[i]]_vars

\* C16: a resync whose hotkeys are, slot for slot, the stored hotkeys changes
\* neither scores nor the stored hotkeys; and the early return of line 499
\* is taken only then.
C16_NoOpIffUnchanged ==
    [][\A new \in Metagraphs :
          Resync(new) =>
             /\ MetagraphHotkeys(new) = hotkeys
                   => (scores' = scores /\ hotkeys' = hotkeys)
             /\ outcome' = "skipped" => MetagraphHotkeys(new) = hotkeys]_vars

\* C17: set_weights called while every score is zero makes no call of the
\* ledger's set_weights and leaves scores unchanged.
C17_AllZeroSkipsEmission ==
    [][(last_op' = "set_weights" /\ AllZero(scores)) =>
          (outcome' = "skipped" /\ scores' = scores)]_vars

C17_Witness ==
    /\ last_op = "set_weights"
    /\ outcome = "skipped"
    /\ AllZero(scores)
    /\ score_exp > 0

\* C18: when scores is non-zero and finite, the raw weights of set_weights
\* sum to 1 and each of them lies in [0, 1].
C18_RawWeightsNormalised ==
    (/\ last_op = "set_weights"
     /\ ~AllZero(scores)
     /\ AllFinite(scores))
    => /\ Len(raw_weights) = Len(scores)
       /\ \A i \in 1..Len(raw_weights) :
             /\ raw_weights[i].kind = "fin"
             /\ raw_weights[i].den = norm.v
             /\ 0 <= raw_weights[i].num
             /\ raw_weights[i].num <= raw_weights[i].den
       /\ SumNum(raw_weights) = norm.v


C20_NoIterationAfterStop == exit_iters <= 1


\* ------------------------------------------ properties of the dispatch step
\* C21: a failure of dendrite.query on the API path stays inside the dispatch
\* step: the iteration goes on to arbitration with a batch of responses and
\* never enters the handler of line 309 from the query.
C21_TransportFailureContained ==
    [][pc = "query" => pc' # "except"]_vars


\* C23: an iteration that serviced an API request has applied update_scores
\* for the round by the time it reaches the end of the API branch.
C23_RoundFeedsEngine ==
    (pc = "check_exit" /\ path = "winner") =>
        (last_op = "update_scores" /\ ~AllZero(scores))

ApiPositions == {"select", "sample", "query", "arbitrate", "write", "set"}

\* C24: an iteration takes the API path when a request was dequeued and
\* api.enabled holds, else the synthetic path when api.exclusive is false,
\* else neither; and the API dispatch and the synthetic dispatch never both
\* run in one iteration.
C24_OneSourcePath ==
    [][/\ (pc = "start" /\ pc' \notin {"start", "done"}) =>
             /\ pc' = "select" <=> (synapse_with_event' # 0 /\ api_enabled)
             /\ pc' = "synthetic" <=>
                   (~(synapse_with_event' # 0 /\ api_enabled) /\ ~api_exclusive)
             /\ pc' = "check_exit" <=>
                   (~(synapse_with_event' # 0 /\ api_enabled) /\ api_exclusive)
       /\ (pc' \in {"select", "synthetic"} /\ pc' # pc) => pc = "start"
       /\ pc \in ApiPositions => pc' # "synthetic"
       /\ pc = "synthetic" => pc' \notin ApiPositions]_vars

\* the loop found the queue empty with the API enabled and not exclusive,
\* and runs the synthetic dispatch
C24_Witness ==
    /\ pc = "synthetic"
    /\ api_enabled
    /\ ~api_exclusive
    /\ synapse_with_event = 0
    /\ \E p \in Producers : deq_count[p] > 0


\* --------------------------------------- properties of one update_scores call
Distinct(uids) == \A i, j \in 1..Len(uids) : i # j => uids[i] # uids[j]

InRange(uids, sc) == \A i \in 1..Len(uids) : uids[i] < Len(sc)

\* the positions of a batch that name uid u
Naming(uids, u) == {j \in 1..Len(uids) : uids[j] = u}

\* the reward of position j as the moving-average step receives it, after
\* the NaN handling of lines 525-528
RewardAt(j) == SanitizedRewards(args.rewards)[j]

\* alpha * reward + (1 - alpha) * old, over the next common denominator
Averaged(reward, old) ==
    Add(Mul(alpha_num * Pow(AlphaDen, score_exp), reward),
        Mul(AlphaDen - alpha_num, old))

\* every non-finite reward replaced by 0
ZeroNonFinite(rewards) ==
    [i \in 1..Len(rewards) |->
        IF IsFinite(rewards[i]) THEN rewards[i] ELSE Fin(0)]

\* a well-formed batch: as many rewards as uids, at least one, every uid a
\* slot of scores
WellFormed(a) ==
    /\ Len(a.rewards) = Len(a.uids)
    /\ Len(a.uids) > 0
    /\ InRange(a.uids, scores)

\* C26: for a non-empty batch of distinct in-range uids, update_scores sets
\* scores[u] = alpha * reward(u) + (1 - alpha) * old[u] for the uids of the
\* batch and scores[v] = (1 - alpha) * old[v] for all others.
C26_MovingAverageExact ==
    [][(/\ last_op' = "update_scores"
        /\ WellFormed(args)
        /\ Distinct(args.uids))
       => /\ Len(scores') = Len(scores)
          /\ score_exp' = score_exp + 1
          /\ \A i \in 1..Len(scores) :
                /\ \A j \in Naming(args.uids, i - 1) :
                      scores'[i] = Averaged(RewardAt(j), scores[i])
                /\ Naming(args.uids, i - 1) = {} =>
                      scores'[i] = Mul(AlphaDen - alpha_num, scores[i])]_vars

\* a miner outside the batch keeps a decayed non-zero score while a miner of
\* the batch is rewarded
C26_Witness ==
    /\ last_op = "update_scores"
    /\ outcome = "ok"
    /\ score_exp = 2
    /\ alpha_num < AlphaDen
    /\ WellFormed(args)
    /\ Distinct(args.uids)
    /\ \E j \in 1..Len(args.uids) : args.rewards[j] = Fin(1)
    /\ \E i \in 1..Len(scores) :
          /\ Naming(args.uids, i - 1) = {}
          /\ IsFinite(scores[i])
          /\ scores[i].v > 0

\* C27: update_scores replaces every non-finite reward by 0 before the moving
\* average, whether or not the batch holds a NaN: the call leaves the scores
\* that the batch with its non-finite rewards set to 0 leaves.
C27_NonFiniteSanitized ==
    [][last_op' = "update_scores" =>
          scores' = update_scores(scores, score_exp, alpha_num,
                                  ZeroNonFinite(args.rewards), args.uids).scores]_vars

\* C28: a call with different numbers of rewards and uids raises and leaves
\* scores unchanged, also when one of the two is empty.
C28_SizeMismatchRaises ==
    [][(last_op' = "update_scores" /\ Len(args.rewards) # Len(args.uids))
          => (outcome' = "raised" /\ scores' = scores)]_vars

\* C29: a batch naming a uid more than once is rejected with scores
\* unchanged, or exactly one of that uid's rewards is applied to its slot.
C29_DuplicatesNotCombined ==
    [][(/\ last_op' = "update_scores"
        /\ WellFormed(args)
        /\ ~Distinct(args.uids))
       => \/ (outcome' = "raised" /\ scores' = scores)
          \/ \A i \in 1..Len(scores) :
                /\ Naming(args.uids, i - 1) # {} =>
                      \E j \in Naming(args.uids, i - 1) :
                         scores'[i] = Averaged(RewardAt(j), scores[i])
                /\ Naming(args.uids, i - 1) = {} =>
                      scores'[i] = Mul(AlphaDen - alpha_num, scores[i])]_vars

\* one uid named twice with different rewards, the batch applied
C29_Witness ==
    /\ last_op = "update_scores"
    /\ outcome = "ok"
    /\ score_exp = 2
    /\ WellFormed(args)
    /\ \E i, j \in 1..Len(args.uids) :
          /\ i # j
          /\ args.uids[i] = args.uids[j]
          /\ IsFinite(args.rewards[i])
          /\ IsFinite(args.rewards[j])
          /\ args.rewards[i] # args.rewards[j]

\* C30: update_scores with no rewards and no uids returns without raising
\* and leaves scores as they were, without decay.
C30_EmptyBatchNoOp ==
    [][(last_op' = "update_scores" /\ args = NoArgs)
          => /\ outcome' = "noop"
             /\ scores' = scores
             /\ score_exp' = score_exp]_vars

C30_Witness ==
    /\ last_op = "update_scores"
    /\ outcome = "noop"
    /\ args = NoArgs
    /\ ~AllZero(scores)


\* the two transforms of set_weights that can fail before the ledger call
TransformFailures == {"process_fails", "convert_fails"}

\* C31: when process_weights_for_netuid or convert_weights_and_uids_for_emit
\* fails in set_weights, the failure is caught inside set_weights, the ledger
\* is not called in that cycle and scores are left as they were.  Stated for
\* finite scores that are not all zero, where both transforms are reached.
C31_TransformFailureContained ==
    [][\A fate \in TransformFailures :
          (SetWeights(fate) /\ ~AllZero(scores) /\ AllFinite(scores))
          => (outcome' = "abandoned" /\ scores' = scores)]_vars

\* C32: after every resync_metagraph in which the membership changed, the
\* stored hotkeys are those of the freshly synced metagraph, also when the
\* membership shrank.
C32_HotkeysFollowMetagraph ==
    [][\A new \in Metagraphs :
          (Resync(new) /\ MetagraphHotkeys(new) # MetagraphHotkeys(metagraph))
          => hotkeys' = MetagraphHotkeys(new)]_vars


\* C33: Miner.blacklist called with a hotkey that is not registered in the
\* metagraph returns a decision and does not raise; the decision is
\* (True, "Unrecognized hotkey") when allow_non_registered is false.
C33_UnregisteredCallerDecided ==
    (/\ verdict.kind # "none"
     /\ dendrite_hotkey # 0
     /\ ~Registered(miner_metagraph.hotkeys, dendrite_hotkey))
    => /\ verdict.kind = "returned"
       /\ ~blacklist_config.allow_non_registered
             => verdict = Returned(TRUE, "Unrecognized hotkey")

====
